---- MODULE Spec2Model ----
(***************************************************************************)
(* Model of src/regex.py: the RegexFSM compiler (RegexFSM.__init__ and     *)
(* __init_next_state) and the breadth-first matcher (check_string).        *)
(*                                                                         *)
(* Characters are their code points (ord), so that str.isascii is the      *)
(* test "code point below 128".  A pattern or an input string is a         *)
(* sequence of code points.  Python objects live in an arena `nodes`: the  *)
(* object with identity k is nodes[k]; NoneId stands for Python's None.    *)
(* Python indexes from 0, sequences here from 1: the scan index `i` is the *)
(* Python index plus one, while the positions held in the frontier keep    *)
(* the Python value (0 .. len(string)).                                    *)
(***************************************************************************)
EXTENDS Integers, Sequences, FiniteSets, TLC

VARIABLES regex_expr, phase, nodes, prev_state, skip, i, compile_error,
          string, states_queue, result, history, caller

vars == <<regex_expr, phase, nodes, prev_state, skip, i, compile_error,
          string, states_queue, result, history, caller>>

compile_vars == <<regex_expr, nodes, prev_state, skip, i, compile_error>>

(***************************************************************************)
(* Bounds of the model and the sample alphabets.                           *)
(***************************************************************************)
MaxPatLen == 4

MaxStrLen == 4

\* the same bounds for a caller that reuses one compiled object for many
\* check_string calls
MaxReusePatLen == 3

MaxReuseStrLen == 2

\* patterns compiled when the whole run of check_string, up to its return,
\* is followed under fairness
MaxFairPatLen == 3

\* strings tried on the demo pattern of line 182
MaxDemoStrLen == 5

\* 'a', 'b'
Letters == {97, 98}

\* a character for which isascii() is false (e-acute)
NonAsciiChars == {233}

(***************************************************************************)
(* Program constants.                                                      *)
(***************************************************************************)
DotChar == 46

StarChar == 42

PlusChar == 43

AsciiLimit == 128

NoneId == 0

NoSym == -1

PatternChars == Letters \cup {DotChar, StarChar, PlusChar} \cup NonAsciiChars

InputChars == Letters

SeqsUpTo(S, n) == UNION {[1..k -> S] : k \in 0..n}

Patterns == SeqsUpTo(PatternChars, MaxPatLen)

Strings == SeqsUpTo(InputChars, MaxStrLen)

ReusePatterns == SeqsUpTo(PatternChars, MaxReusePatLen)

FairPatterns == SeqsUpTo(PatternChars, MaxFairPatLen)

\* line 182: "a*4.+hi"
DemoPattern == <<97, StarChar, 52, DotChar, PlusChar, 104, 105>>

\* 'a', '4', 'h', 'i', 'u'
DemoChars == {97, 52, 104, 105, 117}

\* lines 186-188: "aaaaaa4uhi", "4uhi", "meow", and every short string over
\* the characters of the first two
DemoStrings ==
    SeqsUpTo(DemoChars, MaxDemoStrLen)
        \cup {<<97, 97, 97, 97, 97, 97, 52, 117, 104, 105>>,
              <<52, 117, 104, 105>>,
              <<109, 101, 111, 119>>}

\* the strings a caller passes to check_string
Inputs(c) ==
    IF c.inputs = "demo" THEN DemoStrings
    ELSE {s \in Strings : Len(s) <= c.strlen}

(***************************************************************************)
(* The node classes.                                                       *)
(***************************************************************************)
StartState ==
    [kind |-> "Start", curr_sym |-> NoSym, checking_state |-> NoneId,
     next_states |-> <<>>]

\* TerminationState has no next_states attribute; the empty list here is
\* never read: every access goes through HasNextStates first.
TerminationState ==
    [kind |-> "Termination", curr_sym |-> NoSym, checking_state |-> NoneId,
     next_states |-> <<>>]

DotState ==
    [kind |-> "Dot", curr_sym |-> NoSym, checking_state |-> NoneId,
     next_states |-> <<>>]

AsciiState(symbol) ==
    [kind |-> "Ascii", curr_sym |-> symbol, checking_state |-> NoneId,
     next_states |-> <<>>]

\* StarState built without the self edge of line 70
StarState_no_loop(self, checking_state) ==
    [kind |-> "Star", curr_sym |-> NoSym, checking_state |-> checking_state,
     next_states |-> <<>>]

\* self is the identity of the object under construction
StarState(self, checking_state) ==
    [kind |-> "Star", curr_sym |-> NoSym, checking_state |-> checking_state,
     next_states |-> <<self>>]

\* PlusState built without the self edge of line 82
PlusState_no_loop(self, checking_state) ==
    [kind |-> "Plus", curr_sym |-> NoSym, checking_state |-> checking_state,
     next_states |-> <<>>]

PlusState(self, checking_state) ==
    [kind |-> "Plus", curr_sym |-> NoSym, checking_state |-> checking_state,
     next_states |-> <<self>>]

KindOf(ns, id) == IF id = NoneId THEN "None" ELSE ns[id].kind

HasNextStates(ns, id) == id # NoneId /\ ns[id].kind # "Termination"

\* a test that lets every single-byte (Latin-1) character through
isascii_latin1(c) == c >= 0 /\ c < 2 * AsciiLimit

isascii(c) == c >= 0 /\ c < AsciiLimit

(***************************************************************************)
(* RegexFSM.__init_next_state: the outcome is a returned node, a returned  *)
(* None (the quantifier branch falling through) or a raised exception.     *)
(***************************************************************************)
Return(node) == [tag |-> "return", node |-> node, exc |-> "none"]

ReturnNone == [tag |-> "none", node |-> StartState, exc |-> "none"]

Raise(exc) == [tag |-> "raise", node |-> StartState, exc |-> exc]

\* __init_next_state without the stacked-quantifier test of lines 141-143
InitNextState_no_stack_test(next_token, prev_kind) ==
    IF next_token = DotChar
    THEN Return(DotState)
    ELSE IF next_token \in {StarChar, PlusChar}
    THEN IF prev_kind = "Start"
         THEN Raise("ValueError")
         ELSE ReturnNone
    ELSE IF isascii(next_token)
    THEN Return(AsciiState(next_token))
    ELSE Raise("AttributeError")

InitNextState(next_token, prev_kind) ==
    IF next_token = DotChar
    THEN Return(DotState)
    ELSE IF next_token \in {StarChar, PlusChar}
    THEN IF prev_kind \in {"Star", "Plus"}
         THEN Raise("ValueError")
         ELSE IF prev_kind = "Start"
         THEN Raise("ValueError")
         ELSE ReturnNone
    ELSE IF isascii(next_token)
    THEN Return(AsciiState(next_token))
    ELSE Raise("AttributeError")

\* line 126 written with append in place of insert(0, ...)
InsertFront_appends(ns, id, x) ==
    [ns EXCEPT ![id].next_states = Append(@, x)]

\* line 126 written with self.curr_state in place of prev_state
InsertFront_on_entry(ns, id, x) ==
    [ns EXCEPT ![1].next_states = <<x>> \o @]

\* list.insert(0, x) and list.append(x) on the edge list of object id
InsertFront(ns, id, x) ==
    [ns EXCEPT ![id].next_states = <<x>> \o @]

AppendEdge(ns, id, x) ==
    [ns EXCEPT ![id].next_states = Append(@, x)]

(***************************************************************************)
(* What is remembered of the check_string calls made so far on the         *)
(* compiled object: whether a first call was completed, its string and     *)
(* outcome, and whether a call with another string came after it.          *)
(***************************************************************************)
NoHistory ==
    [made |-> FALSE, first_string |-> <<>>, first_result |-> "none",
     interleaved |-> FALSE]

Record(h, str, res) ==
    IF ~h.made
    THEN [made |-> TRUE, first_string |-> str, first_result |-> res,
          interleaved |-> FALSE]
    ELSE [h EXCEPT !.interleaved = @ \/ str # h.first_string]

(***************************************************************************)
(* State after line 96: the entry node exists, nothing is scanned yet.     *)
(***************************************************************************)
curr_state == 1

Init ==
    /\ regex_expr \in Patterns
    /\ phase = "scan"
    /\ nodes = <<StartState>>
    /\ prev_state = curr_state
    /\ skip = FALSE
    /\ i = 1
    /\ compile_error = "none"
    /\ string = <<>>
    /\ states_queue = <<>>
    /\ result = "none"
    /\ history = NoHistory
    /\ caller = [reuse |-> FALSE, strlen |-> MaxStrLen, inputs |-> "sample"]

\* the same start for a caller that keeps the compiled object and calls
\* check_string on it any number of times (as the demo of lines 184-188)
InitReuse ==
    /\ regex_expr \in ReusePatterns
    /\ phase = "scan"
    /\ nodes = <<StartState>>
    /\ prev_state = curr_state
    /\ skip = FALSE
    /\ i = 1
    /\ compile_error = "none"
    /\ string = <<>>
    /\ states_queue = <<>>
    /\ result = "none"
    /\ history = NoHistory
    /\ caller = [reuse |-> TRUE, strlen |-> MaxReuseStrLen,
                 inputs |-> "sample"]

\* the start of Init with the patterns followed under fairness
InitFair ==
    /\ regex_expr \in FairPatterns
    /\ phase = "scan"
    /\ nodes = <<StartState>>
    /\ prev_state = curr_state
    /\ skip = FALSE
    /\ i = 1
    /\ compile_error = "none"
    /\ string = <<>>
    /\ states_queue = <<>>
    /\ result = "none"
    /\ history = NoHistory
    /\ caller = [reuse |-> FALSE, strlen |-> MaxStrLen, inputs |-> "sample"]

\* the demo of lines 182-188: the fixed pattern, compiled once
InitDemo ==
    /\ regex_expr = DemoPattern
    /\ phase = "scan"
    /\ nodes = <<StartState>>
    /\ prev_state = curr_state
    /\ skip = FALSE
    /\ i = 1
    /\ compile_error = "none"
    /\ string = <<>>
    /\ states_queue = <<>>
    /\ result = "none"
    /\ history = NoHistory
    /\ caller = [reuse |-> FALSE, strlen |-> MaxDemoStrLen, inputs |-> "demo"]

match_vars == <<string, states_queue, result, history, caller>>

\* lines 98-100: the empty pattern
CompileEmpty ==
    /\ phase = "scan"
    /\ regex_expr = <<>>
    /\ nodes' = AppendEdge(Append(nodes, TerminationState), curr_state,
                           Len(nodes) + 1)
    /\ phase' = "compiled"
    /\ UNCHANGED <<regex_expr, prev_state, skip, i, compile_error, match_vars>>

\* lines 108-110: an iteration that only consumes a quantifier character
ScanSkip ==
    /\ phase = "scan"
    /\ regex_expr # <<>>
    /\ i <= Len(regex_expr)
    /\ skip
    /\ skip' = FALSE
    /\ i' = i + 1
    /\ UNCHANGED <<regex_expr, phase, nodes, prev_state, compile_error,
                   match_vars>>

\* the lookahead without the "+" case of lines 119-121
Lookahead_star_only(expr, idx) ==
    IF idx + 1 <= Len(expr)
    THEN IF expr[idx + 1] = StarChar THEN "Star" ELSE "none"
    ELSE "none"

\* the lookahead of lines 114-123: which wrapper, if any, the next
\* character asks for
Lookahead(expr, idx) ==
    IF idx + 1 <= Len(expr)
    THEN IF expr[idx + 1] = StarChar THEN "Star"
         ELSE IF expr[idx + 1] = PlusChar THEN "Plus"
         ELSE "none"
    ELSE "none"

\* lines 112-127: an iteration that builds a node for regex_expr[i]
ScanAtom ==
    /\ phase = "scan"
    /\ regex_expr # <<>>
    /\ i <= Len(regex_expr)
    /\ ~skip
    /\ LET r == InitNextState(regex_expr[i], KindOf(nodes, prev_state))
           base_nodes == IF r.tag = "return" THEN Append(nodes, r.node)
                         ELSE nodes
           base_id == IF r.tag = "return" THEN Len(nodes) + 1 ELSE NoneId
           wrap == Lookahead(regex_expr, i)
           wrap_id == Len(base_nodes) + 1
           built_nodes ==
               IF wrap = "Star"
               THEN Append(base_nodes, StarState(wrap_id, base_id))
               ELSE IF wrap = "Plus"
               THEN Append(base_nodes, PlusState(wrap_id, base_id))
               ELSE base_nodes
           tmp_next_state == IF wrap = "none" THEN base_id ELSE wrap_id
       IN  IF r.tag = "raise"
           THEN /\ phase' = "failed"
                /\ compile_error' = r.exc
                /\ UNCHANGED <<nodes, prev_state, skip, i>>
           ELSE IF ~HasNextStates(nodes, prev_state)
           THEN /\ phase' = "failed"
                /\ compile_error' = "AttributeError"
                /\ UNCHANGED <<nodes, prev_state, skip, i>>
           ELSE /\ nodes' = InsertFront(built_nodes, prev_state, tmp_next_state)
                /\ prev_state' = tmp_next_state
                /\ skip' = (wrap # "none")
                /\ i' = i + 1
                /\ UNCHANGED <<phase, compile_error>>
    /\ UNCHANGED <<regex_expr, match_vars>>

\* line 129: the scan is over
FinishCompile ==
    /\ phase = "scan"
    /\ regex_expr # <<>>
    /\ i > Len(regex_expr)
    /\ IF HasNextStates(nodes, prev_state)
       THEN /\ nodes' = AppendEdge(Append(nodes, TerminationState), prev_state,
                                   Len(nodes) + 1)
            /\ phase' = "compiled"
            /\ UNCHANGED compile_error
       ELSE /\ phase' = "failed"
            /\ compile_error' = "AttributeError"
            /\ UNCHANGED nodes
    /\ UNCHANGED <<regex_expr, prev_state, skip, i, match_vars>>

(***************************************************************************)
(* check_self of each class.  The outcome is "True", "False" (StartState   *)
(* returns None, which is falsy) or "AttributeError" (None has no          *)
(* check_self).                                                            *)
(***************************************************************************)
\* AsciiState.check_self without the comparison of line 61
RECURSIVE check_self_any_symbol(_, _, _)
check_self_any_symbol(ns, id, char) ==
    IF id = NoneId THEN "AttributeError"
    ELSE LET n == ns[id]
         IN  IF n.kind \in {"Dot", "Ascii"} THEN "True"
             ELSE IF n.kind \in {"Star", "Plus"}
             THEN check_self_any_symbol(ns, n.checking_state, char)
             ELSE "False"

RECURSIVE check_self(_, _, _)
check_self(ns, id, char) ==
    IF id = NoneId THEN "AttributeError"
    ELSE LET n == ns[id]
         IN  IF n.kind = "Dot" THEN "True"
             ELSE IF n.kind = "Ascii"
             THEN IF char = n.curr_sym THEN "True" ELSE "False"
             ELSE IF n.kind \in {"Star", "Plus"}
             THEN check_self(ns, n.checking_state, char)
             ELSE "False"

\* the acceptance test looking at the dequeued node only
AnyTermination_self_only(ns, curr) == KindOf(ns, curr) = "Termination"

\* line 163: any(isinstance(s, TerminationState)
\*               for s in [curr_state] + curr_state.next_states)
AnyTermination(ns, curr) ==
    LET l == <<curr>> \o ns[curr].next_states
    IN  \E k \in 1..Len(l) : KindOf(ns, l[k]) = "Termination"

(***************************************************************************)
(* One iteration of the while loop of check_string (lines 160-177) on the  *)
(* dequeued pair (curr, start): what is returned or raised ("none" when    *)
(* the loop goes on) and the pairs appended to the frontier.               *)
(***************************************************************************)
Continue(pushes) == [outcome |-> "none", pushes |-> pushes]

Stop(outcome) == [outcome |-> outcome, pushes |-> <<>>]

\* the loop without the StarState branch of lines 170-171
FirstPush_star_consumes(ns, next_state, start, char) ==
    IF check_self(ns, next_state, char) = "True"
    THEN << <<next_state, start + 1>> >>
    ELSE <<>>

\* lines 170-174: the pair pushed for edge 0
FirstPush(ns, next_state, start, char) ==
    IF KindOf(ns, next_state) = "Star"
    THEN << <<next_state, start>> >>
    ELSE IF check_self(ns, next_state, char) = "True"
    THEN << <<next_state, start + 1>> >>
    ELSE <<>>

\* the loop without lines 176-177
SecondPush_never(ns, curr, start) == <<>>

\* lines 176-177: the pair pushed for edge 1
SecondPush(ns, curr, start) ==
    IF Len(ns[curr].next_states) = 2
    THEN << <<ns[curr].next_states[2], start + 1>> >>
    ELSE <<>>

Iteration(ns, curr, start, str) ==
    IF start = Len(str)
    THEN IF ~HasNextStates(ns, curr) THEN Stop("AttributeError")
         ELSE IF AnyTermination(ns, curr) THEN Stop("True")
         ELSE Continue(<<>>)
    ELSE IF ~HasNextStates(ns, curr) THEN Stop("AttributeError")
    ELSE IF Len(ns[curr].next_states) = 0 THEN Stop("IndexError")
    ELSE LET next_state == ns[curr].next_states[1]
             char == str[start + 1]
         IN  IF /\ KindOf(ns, next_state) # "Star"
                /\ check_self(ns, next_state, char) = "AttributeError"
             THEN Stop("AttributeError")
             ELSE Continue(FirstPush(ns, next_state, start, char)
                           \o SecondPush(ns, curr, start))

\* lines 155-157: a call of check_string on the compiled object
CallCheckString ==
    /\ phase = "compiled" \/ (phase = "returned" /\ caller.reuse)
    /\ \E s \in Inputs(caller) : string' = s
    /\ states_queue' = << <<curr_state, 0>> >>
    /\ result' = "none"
    /\ phase' = "matching"
    /\ UNCHANGED <<compile_vars, history, caller>>

\* the loop taking edge 0 with next_states.pop(0) instead of next_states[0]
LoopStep_pops_edge ==
    /\ phase = "matching"
    /\ states_queue # <<>>
    /\ LET curr == Head(states_queue)[1]
           start == Head(states_queue)[2]
           it == Iteration(nodes, curr, start, string)
       IN  /\ IF it.outcome = "none"
              THEN /\ states_queue' = Tail(states_queue) \o it.pushes
                   /\ UNCHANGED <<phase, result, history>>
              ELSE /\ states_queue' = <<>>
                   /\ result' = it.outcome
                   /\ phase' = "returned"
                   /\ history' = Record(history, string, it.outcome)
           /\ IF /\ start # Len(string)
                 /\ HasNextStates(nodes, curr)
                 /\ Len(nodes[curr].next_states) > 0
              THEN nodes' = [nodes EXCEPT ![curr].next_states = Tail(@)]
              ELSE UNCHANGED nodes
    /\ UNCHANGED <<regex_expr, prev_state, skip, i, compile_error, string,
                   caller>>

\* lines 159-177: one iteration of the loop; it only reads the graph
LoopStep ==
    /\ phase = "matching"
    /\ states_queue # <<>>
    /\ LET curr == Head(states_queue)[1]
           start == Head(states_queue)[2]
           it == Iteration(nodes, curr, start, string)
       IN  IF it.outcome = "none"
           THEN /\ states_queue' = Tail(states_queue) \o it.pushes
                /\ UNCHANGED <<phase, result, history>>
           ELSE /\ states_queue' = <<>>
                /\ result' = it.outcome
                /\ phase' = "returned"
                /\ history' = Record(history, string, it.outcome)
    /\ UNCHANGED <<compile_vars, string, caller>>

\* line 179: the frontier is exhausted
ReturnFalse ==
    /\ phase = "matching"
    /\ states_queue = <<>>
    /\ result' = "False"
    /\ phase' = "returned"
    /\ history' = Record(history, string, "False")
    /\ UNCHANGED <<compile_vars, string, states_queue, caller>>

Next ==
    \/ CompileEmpty
    \/ ScanSkip
    \/ ScanAtom
    \/ FinishCompile
    \/ CallCheckString
    \/ LoopStep
    \/ ReturnFalse

Spec == Init /\ [][Next]_vars

SpecReuse == InitReuse /\ [][Next]_vars

\* check_string is a plain loop: once called it keeps iterating until it
\* returns or raises
Fairness == WF_vars(LoopStep) /\ WF_vars(ReturnFalse)

SpecFair == InitFair /\ [][Next]_vars /\ Fairness

\* the demo pattern is not empty: lines 98-100 are never taken
NextDemo ==
    \/ ScanSkip
    \/ ScanAtom
    \/ FinishCompile
    \/ CallCheckString
    \/ LoopStep
    \/ ReturnFalse

SpecDemo == InitDemo /\ [][NextDemo]_vars

(***************************************************************************)
(* Vocabulary of the properties.                                           *)
(***************************************************************************)
Quantifiers == {StarChar, PlusChar}

\* the ASCII code points
Ascii == 0..(AsciiLimit - 1)

IsLiteral(c) == c \in Ascii /\ c \notin Quantifiers /\ c # DotChar

IsAtom(c) == c \in Ascii /\ c \notin Quantifiers

\* the atom x of the pattern accepts the character c
AtomAccepts(x, c) == x = DotChar \/ x = c

Returned == phase = "returned"

LiteralDotOnly(p) == p # <<>> /\ \A k \in 1..Len(p) : IsAtom(p[k])

PositionalMatch(p, s) ==
    /\ Len(s) = Len(p)
    /\ \A k \in 1..Len(p) : AtomAccepts(p[k], s[k])

\* s is n characters accepted by x followed by y, with n >= least
RepeatThen(s, x, y, least) ==
    /\ Len(s) >= least + 1
    /\ s[Len(s)] = y
    /\ \A k \in 1..(Len(s) - 1) : AtomAccepts(x, s[k])

StarThenLiteral(p) ==
    /\ Len(p) = 3
    /\ IsLiteral(p[1]) /\ p[2] = StarChar /\ IsLiteral(p[3])

PlusThenLiteral(p) ==
    /\ Len(p) = 3
    /\ IsAtom(p[1]) /\ p[2] = PlusChar /\ IsLiteral(p[3])

(***************************************************************************)
(* C1: check_string on a compiled pattern always completes by returning    *)
(* True or False; it never raises, in particular not when a Termination    *)
(* node was enqueued as a pair.                                            *)
(***************************************************************************)
C1_NeverRaises == Returned => result \in {"True", "False"}

(***************************************************************************)
(* C2: for a non-empty pattern p of literals and '.', check_string(s) is   *)
(* True exactly when len(s) = len(p) and every p[k] is '.' or equals s[k]; *)
(* otherwise it is False.                                                  *)
(***************************************************************************)
C2_LiteralDotExact ==
    (Returned /\ LiteralDotOnly(regex_expr)) =>
        /\ PositionalMatch(regex_expr, string) => result = "True"
        /\ ~PositionalMatch(regex_expr, string) => result = "False"

C2_Witness ==
    /\ Returned
    /\ LiteralDotOnly(regex_expr)
    /\ Len(regex_expr) >= 3
    /\ regex_expr[2] = DotChar
    /\ IsLiteral(regex_expr[1])
    /\ result = "True"

(***************************************************************************)
(* C3: for a pattern x*y with literals x and y, every string x^n y with    *)
(* n >= 0 is accepted, and every string that does not end with y (the      *)
(* empty string included) is rejected.                                     *)
(***************************************************************************)
C3_StarThenLiteral ==
    (Returned /\ StarThenLiteral(regex_expr)) =>
        /\ RepeatThen(string, regex_expr[1], regex_expr[3], 0)
               => result = "True"
        /\ (string = <<>> \/ string[Len(string)] # regex_expr[3])
               => result = "False"

C3_Witness ==
    /\ Returned
    /\ StarThenLiteral(regex_expr)
    /\ regex_expr[1] # regex_expr[3]
    /\ string = <<regex_expr[3]>>
    /\ result = "True"

(***************************************************************************)
(* C4: for a pattern x+y (x a literal or '.', y a literal), every string   *)
(* whose first character x does not accept, and the empty string, is       *)
(* rejected, and every string x^n y with n >= 1 is accepted.               *)
(***************************************************************************)
C4_PlusThenLiteral ==
    (Returned /\ PlusThenLiteral(regex_expr)) =>
        /\ (string = <<>> \/ ~AtomAccepts(regex_expr[1], string[1]))
               => result = "False"
        /\ RepeatThen(string, regex_expr[1], regex_expr[3], 1)
               => result = "True"

C4_Witness ==
    /\ Returned
    /\ PlusThenLiteral(regex_expr)
    /\ regex_expr[1] # regex_expr[3]
    /\ string = <<regex_expr[1], regex_expr[1], regex_expr[3]>>
    /\ result = "True"

(***************************************************************************)
(* C5: for a pattern x*y (resp. x+y) with literals x and y, every accepted *)
(* string is x^n y with n >= 0 (resp. n >= 1): a string with a character   *)
(* other than x before the final y is rejected.                            *)
(***************************************************************************)
C5_OnlyRepeatsOfAtom ==
    /\ (Returned /\ StarThenLiteral(regex_expr) /\ result = "True")
           => RepeatThen(string, regex_expr[1], regex_expr[3], 0)
    /\ (Returned /\ PlusThenLiteral(regex_expr) /\ IsLiteral(regex_expr[1])
            /\ result = "True")
           => RepeatThen(string, regex_expr[1], regex_expr[3], 1)

(***************************************************************************)
(* C6: a pattern P x* (P a possibly empty run of literals and '.', x an    *)
(* atom) accepts every string made of a match of P followed by zero or     *)
(* more characters accepted by x.                                          *)
(***************************************************************************)
TrailingStar(p) ==
    /\ Len(p) >= 2
    /\ p[Len(p)] = StarChar
    /\ \A k \in 1..(Len(p) - 1) : IsAtom(p[k])

C6_TrailingStarAccepts ==
    (Returned /\ TrailingStar(regex_expr)) =>
        LET P == SubSeq(regex_expr, 1, Len(regex_expr) - 2)
            x == regex_expr[Len(regex_expr) - 1]
        IN  (/\ Len(string) >= Len(P)
             /\ PositionalMatch(P, SubSeq(string, 1, Len(P)))
             /\ \A j \in (Len(P) + 1)..Len(string) : AtomAccepts(x, string[j]))
                => result = "True"

(***************************************************************************)
(* C7: compiling an all-ASCII pattern that begins with a quantifier, or    *)
(* that has two quantifiers in a row after a well-formed prefix, fails     *)
(* with ValueError at the offending quantifier, whatever follows it, and   *)
(* yields no compiled object.                                              *)
(***************************************************************************)
AllAscii(p) == \A k \in 1..Len(p) : p[k] \in Ascii

\* every quantifier directly follows an atom
WellFormed(p) ==
    \A k \in 1..Len(p) :
        p[k] \in Quantifiers => (k > 1 /\ p[k - 1] \notin Quantifiers)

\* k is the index of a misplaced quantifier
Misplaced(p, k) ==
    /\ k \in 1..Len(p)
    /\ p[k] \in Quantifiers
    /\ (k = 1 \/ p[k - 1] \in Quantifiers)
    /\ WellFormed(SubSeq(p, 1, k - 1))

C7_QuantifierPlacement ==
    \A k \in 1..Len(regex_expr) :
        (AllAscii(regex_expr) /\ Misplaced(regex_expr, k)) =>
            /\ phase \in {"scan", "failed"}
            /\ phase = "scan" => i <= k
            /\ phase = "failed" => (compile_error = "ValueError" /\ i = k)

C7_Witness ==
    /\ phase = "failed"
    /\ compile_error = "ValueError"
    /\ AllAscii(regex_expr)
    /\ Len(regex_expr) >= 3
    /\ IsAtom(regex_expr[1])
    /\ regex_expr[2] \in Quantifiers
    /\ regex_expr[3] \in Quantifiers
    /\ i = 3

(***************************************************************************)
(* C8: a pattern with a non-ASCII character never compiles: the scan       *)
(* raises AttributeError when it reaches the first such character as the   *)
(* current atom, unless ValueError was raised at an earlier position; the  *)
(* character is never skipped as a lookahead and never becomes a node.     *)
(***************************************************************************)
FirstNonAscii(p, k) ==
    /\ k \in 1..Len(p)
    /\ p[k] \notin Ascii
    /\ \A j \in 1..(k - 1) : p[j] \in Ascii

C8_NonAsciiRejected ==
    \A k \in 1..Len(regex_expr) :
        FirstNonAscii(regex_expr, k) =>
            /\ phase \in {"scan", "failed"}
            /\ phase = "scan" => (i <= k /\ (i = k => ~skip))
            /\ phase = "failed" =>
                   \/ compile_error = "AttributeError" /\ i = k
                   \/ compile_error = "ValueError" /\ i < k
            /\ \A n \in 1..Len(nodes) :
                   nodes[n].curr_sym = NoSym \/ nodes[n].curr_sym \in Ascii

C8_Witness ==
    /\ phase = "failed"
    /\ compile_error = "AttributeError"
    /\ Len(regex_expr) >= 3
    /\ regex_expr[2] \in Quantifiers
    /\ FirstNonAscii(regex_expr, 3)
    /\ i = 3

(***************************************************************************)
(* C9: the graph of the empty pattern has a Start node with exactly one    *)
(* outgoing edge, to Termination; on it check_string("") is True and       *)
(* check_string(s) is False for every non-empty s.                         *)
(***************************************************************************)
C9_EmptyPattern ==
    (regex_expr = <<>> /\ phase # "scan") =>
        /\ phase # "failed"
        /\ Len(nodes[curr_state].next_states) = 1
        /\ KindOf(nodes, nodes[curr_state].next_states[1]) = "Termination"
        /\ Returned => (/\ string = <<>> => result = "True"
                        /\ string # <<>> => result = "False")

C9_Witness ==
    /\ regex_expr = <<>>
    /\ Returned
    /\ string = <<>>
    /\ result = "True"

(***************************************************************************)
(* C10: check_string never changes the compiled graph, and after any       *)
(* sequence of calls on one compiled object a call with the string of the  *)
(* first call (made on the fresh object) has the outcome of that first     *)
(* call; each call starts from a frontier holding only (Start, 0).         *)
(***************************************************************************)
C10_GraphReadOnly ==
    [][/\ phase \in {"compiled", "matching", "returned"}
           => (nodes' = nodes /\ regex_expr' = regex_expr)
       /\ (phase = "matching" /\ phase' = "returned"
             /\ string' = history'.first_string)
           => result' = history'.first_result
       /\ phase' = "matching" /\ phase # "matching"
           => states_queue' = << <<curr_state, 0>> >>]_vars

C10_Witness ==
    /\ Returned
    /\ caller.reuse
    /\ history.interleaved
    /\ string = history.first_string
    /\ result = "True"
    /\ Len(string) >= 2

(***************************************************************************)
(* C11: the pattern "a*4.+hi" accepts every string a^n 4 c_1..c_m h i with *)
(* n >= 0, m >= 1 and arbitrary c_j, and rejects every string that does    *)
(* not end with "hi".                                                      *)
(***************************************************************************)
DemoShape(s) ==
    \E n \in 0..Len(s) :
        /\ \A k \in 1..n : s[k] = 97
        /\ Len(s) >= n + 4
        /\ s[n + 1] = 52
        /\ s[Len(s) - 1] = 104
        /\ s[Len(s)] = 105

EndsWithHi(s) ==
    /\ Len(s) >= 2
    /\ s[Len(s) - 1] = 104
    /\ s[Len(s)] = 105

C11_DemoPattern ==
    (Returned /\ regex_expr = DemoPattern) =>
        /\ DemoShape(string) => result = "True"
        /\ ~EndsWithHi(string) => result = "False"

C11_Witness ==
    /\ Returned
    /\ regex_expr = DemoPattern
    /\ string = <<97, 97, 97, 97, 97, 97, 52, 117, 104, 105>>
    /\ result = "True"

(***************************************************************************)
(* Vocabulary of the graph properties.                                     *)
(***************************************************************************)
Compiled == phase \in {"compiled", "matching", "returned"}

\* the objects that own an edge list
Owners == {n \in 1..Len(nodes) : nodes[n].kind # "Termination"}

Edges(n) == nodes[n].next_states

SelfLoops(n) == \E k \in 1..Len(Edges(n)) : Edges(n)[k] = n

StarNodes == {n \in 1..Len(nodes) : nodes[n].kind = "Star"}

PlusNodes == {n \in 1..Len(nodes) : nodes[n].kind = "Plus"}

(***************************************************************************)
(* C12: in every compiled graph a node owning an edge list holds at most   *)
(* two outgoing edges, the Start node holds exactly one, and only Star and *)
(* Plus nodes hold a second edge.                                          *)
(***************************************************************************)
C12_EdgeCountBound ==
    Compiled =>
        /\ \A n \in Owners : Len(Edges(n)) <= 2
        /\ Len(Edges(curr_state)) = 1
        /\ \A n \in Owners :
               Len(Edges(n)) = 2 => nodes[n].kind \in {"Star", "Plus"}

C12_Witness ==
    /\ phase = "compiled"
    /\ Len(regex_expr) >= 4
    /\ \E n \in StarNodes : Len(Edges(n)) = 2
    /\ \E n \in PlusNodes : Len(Edges(n)) = 2
    /\ Len(Edges(curr_state)) = 1

(***************************************************************************)
(* C13 as stated: in every compiled graph no Plus node appears in its own  *)
(* outgoing-edge list, whereas every Star node does.                       *)
(***************************************************************************)
C13_PlusNeverLoops ==
    Compiled =>
        /\ \A n \in PlusNodes : ~SelfLoops(n)
        /\ \A n \in StarNodes : SelfLoops(n)

(***************************************************************************)
(* C13 as amended: in every compiled graph every Plus node appears in its  *)
(* own outgoing-edge list, exactly once, just as every Star node does.     *)
(***************************************************************************)
C13_PlusAndStarLoop ==
    Compiled =>
        \A n \in PlusNodes \cup StarNodes :
            Cardinality({k \in 1..Len(Edges(n)) : Edges(n)[k] = n}) = 1

C13_Witness ==
    /\ phase = "compiled"
    /\ \E n \in PlusNodes : SelfLoops(n)
    /\ \E n \in StarNodes : SelfLoops(n)

(***************************************************************************)
(* C14 as stated: in every compiled graph the self-loop of each Star node  *)
(* is its edge 0 and the edge to whatever follows the star is its edge 1,  *)
(* whether or not further atoms follow the star.                           *)
(***************************************************************************)
C14_StarLoopIsEdge0 ==
    Compiled =>
        \A n \in StarNodes :
            /\ Len(Edges(n)) = 2
            /\ Edges(n)[1] = n
            /\ Edges(n)[2] # n

(***************************************************************************)
(* C14 as amended: in every compiled graph each Star node holds two edges; *)
(* when the star is the last atom its self-loop is edge 0 and Termination  *)
(* is edge 1; when further atoms follow, the node of the following atom is *)
(* edge 0 and the self-loop is edge 1.                                     *)
(***************************************************************************)
C14_StarLoopPosition ==
    Compiled =>
        \A n \in StarNodes :
            /\ Len(Edges(n)) = 2
            /\ IF n = prev_state
               THEN /\ Edges(n)[1] = n
                    /\ KindOf(nodes, Edges(n)[2]) = "Termination"
               ELSE /\ Edges(n)[2] = n
                    /\ Edges(n)[1] # n
                    /\ KindOf(nodes, Edges(n)[1])
                           \in {"Dot", "Ascii", "Star", "Plus"}

C14_Witness ==
    /\ phase = "compiled"
    /\ \E n \in StarNodes : n = prev_state
    /\ \E n \in StarNodes : n # prev_state /\ Edges(n)[2] = n

(***************************************************************************)
(* C15: during a check_string run every pair of the frontier has a         *)
(* position in 0..len(input); a dequeued pair at position len(input) is    *)
(* never expanded: it either makes the call return True or is discarded;   *)
(* and True is returned only for a dequeued pair at position len(input)    *)
(* whose node is Termination or has Termination among its edges.           *)
(***************************************************************************)
HoldsTermination(n) ==
    \/ KindOf(nodes, n) = "Termination"
    \/ /\ n # NoneId
       /\ \E k \in 1..Len(Edges(n)) :
              KindOf(nodes, Edges(n)[k]) = "Termination"

C15_FrontierDiscipline ==
    [][(phase = "matching" /\ states_queue # <<>>) =>
          LET node == Head(states_queue)[1]
              position == Head(states_queue)[2]
          IN  /\ \A k \in 1..Len(states_queue) :
                     /\ states_queue[k][2] >= 0
                     /\ states_queue[k][2] <= Len(string)
              /\ position = Len(string) =>
                     \/ phase' = "returned" /\ result' = "True"
                     \/ phase' = "matching"
                            /\ states_queue' = Tail(states_queue)
              /\ (phase' = "returned" /\ result' = "True") =>
                     (position = Len(string) /\ HoldsTermination(node))]_vars

(***************************************************************************)
(* C16: for a well-formed non-empty pattern with k atoms the compiled      *)
(* graph is the chain Start, n_1, ..., n_k in pattern order, one node per  *)
(* atom and none for a quantifier character: edge 0 of Start and of every  *)
(* n_j with j < k is n_(j+1), and Termination occurs exactly once in the   *)
(* graph, as the last outgoing edge of n_k.                                *)
(***************************************************************************)
AtomPositions(p) == {k \in 1..Len(p) : p[k] \notin Quantifiers}

\* the position in p of its j-th atom
AtomAt(p, j) ==
    CHOOSE k \in AtomPositions(p) :
        Cardinality({m \in AtomPositions(p) : m <= k}) = j

\* the node reached from Start by following edge 0 j times
RECURSIVE ChainNode(_)
ChainNode(j) == IF j = 0 THEN curr_state ELSE Edges(ChainNode(j - 1))[1]

\* node n stands for the atom at position k of p and its quantifier
NodeOfAtom(n, p, k) ==
    LET quantified == k < Len(p) /\ p[k + 1] \in Quantifiers
        base == IF quantified THEN nodes[n].checking_state ELSE n
    IN  /\ n # NoneId
        /\ base # NoneId
        /\ quantified =>
               nodes[n].kind = (IF p[k + 1] = StarChar THEN "Star" ELSE "Plus")
        /\ IF p[k] = DotChar
           THEN nodes[base].kind = "Dot"
           ELSE nodes[base].kind = "Ascii" /\ nodes[base].curr_sym = p[k]

\* the wrapped base atoms, which are part of their Star or Plus node
Inner == {nodes[n].checking_state : n \in StarNodes \cup PlusNodes}

TerminationEdges ==
    {e \in Owners \X (1..2) :
        /\ e[2] <= Len(Edges(e[1]))
        /\ KindOf(nodes, Edges(e[1])[e[2]]) = "Termination"}

C16_ChainInPatternOrder ==
    (Compiled /\ regex_expr # <<>>) =>
        LET k == Cardinality(AtomPositions(regex_expr))
        IN  /\ \A j \in 1..k :
                   NodeOfAtom(ChainNode(j), regex_expr, AtomAt(regex_expr, j))
            /\ \A j \in 1..k : \A l \in 1..k :
                   j # l => ChainNode(j) # ChainNode(l)
            /\ Cardinality({n \in Owners : n # curr_state} \ Inner) = k
            /\ TerminationEdges
                   = {<<ChainNode(k), Len(Edges(ChainNode(k)))>>}
            /\ Cardinality({n \in 1..Len(nodes) :
                               nodes[n].kind = "Termination"}) = 1

C16_Witness ==
    /\ phase = "compiled"
    /\ Len(regex_expr) >= 4
    /\ Cardinality(AtomPositions(regex_expr)) = 3
    /\ nodes[ChainNode(1)].kind = "Star"
    /\ nodes[ChainNode(2)].kind = "Ascii"
    /\ nodes[ChainNode(3)].kind = "Dot"

(***************************************************************************)
(* C17: every check_string call terminates after finitely many dequeues,   *)
(* for every compiled pattern and every input: a pair (Star, position)     *)
(* that re-enqueues itself without consuming input cannot keep the loop    *)
(* running forever.                                                        *)
(***************************************************************************)
C17_CheckStringTerminates == (phase = "matching") ~> (phase = "returned")

\* the frontier holds a pair (Star, p) that was already expanded once: the
\* pair pushed along with it, for its second edge, is still ahead of it
C17_Witness ==
    /\ phase = "matching"
    /\ \E j \in 1..Len(states_queue) : \E k \in 1..Len(states_queue) :
           LET n == states_queue[k][1]
           IN  /\ j < k
               /\ n \in StarNodes
               /\ Edges(n)[1] = n
               /\ states_queue[j] = <<Edges(n)[2], states_queue[k][2] + 1>>

(***************************************************************************)
(* C18: whenever the scan reaches a quantifier as the current character,   *)
(* the previous node is Start, Star or Plus, so a ValueError branch fires  *)
(* and __init_next_state never falls through to return None; no None is    *)
(* ever inserted into an edge list (nor wrapped, nor made the previous     *)
(* node), and every ASCII pattern in which each quantifier directly        *)
(* follows an atom compiles successfully.                                  *)
(***************************************************************************)
AtQuantifier ==
    /\ phase = "scan"
    /\ i <= Len(regex_expr)
    /\ ~skip
    /\ regex_expr[i] \in Quantifiers

C18_QuantifierBranchRaises ==
    /\ AtQuantifier => KindOf(nodes, prev_state) \in {"Start", "Star", "Plus"}
    /\ prev_state # NoneId
    /\ \A n \in 1..Len(nodes) :
           /\ \A k \in 1..Len(Edges(n)) : Edges(n)[k] # NoneId
           /\ nodes[n].kind \in {"Star", "Plus"}
                  => nodes[n].checking_state # NoneId
    /\ (phase = "failed" /\ regex_expr[i] \in Quantifiers)
           => compile_error = "ValueError"
    /\ (AllAscii(regex_expr) /\ WellFormed(regex_expr))
           => /\ phase # "failed"
              /\ phase = "scan" => i <= Len(regex_expr) + 1

C18_Witness ==
    /\ AtQuantifier
    /\ i >= 3
    /\ KindOf(nodes, prev_state) = "Plus"
    /\ regex_expr[i - 1] = PlusChar

====
